---- MODULE Spec2Model ----
(***************************************************************************)
(* Model of the subdomain finder (src/domain.py and its reduced copy      *)
(* src/domain1.py).                                                        *)
(*                                                                         *)
(* Strings are sequences of character codes (ASCII), so that f-string      *)
(* concatenation, str.split, str.strip, str.splitlines, the `in` substring *)
(* test and the ordering used by sorted() are computed and not assumed.    *)
(* The environment of one run (what DNS answers for each query, what the   *)
(* crt.sh request yields, what each external process does) is chosen in    *)
(* Init; the actions are the statements of analyze_domain_and_subdomains   *)
(* and of the functions it calls.                                          *)
(***************************************************************************)
EXTENDS Integers, Sequences, FiniteSets, TLC

VARIABLES
    script,      \* which file runs: "domain" (domain.py) or "domain1" (domain1.py)
    domain,      \* the argument of analyze_domain_and_subdomains
    dns,         \* environment: outcome of the k-th DNS query (0 = apex, k = k-th label)
    http,        \* environment: outcome of requests.get(url) / response.json()
    tools,       \* environment: outcome of each subprocess.run
    pc,          \* position inside analyze_domain_and_subdomains
    subdomains,  \* the aggregate set (local `subdomains` of analyze_domain_and_subdomains)
    i,           \* brute_force_subdomains: index of the next entry of known_subdomains
    bfSet,       \* brute_force_subdomains: its local set `subdomains`
    lookups,     \* names passed to dns.resolver.resolve by brute_force_subdomains, in order
    calls,       \* source functions invoked so far, in order
    ret,         \* source function -> the set it returned (only functions that returned)
    stdout,      \* lines printed so far
    exc          \* exception that escaped analyze_domain_and_subdomains, "none" if none

vars == <<script, domain, dns, http, tools, pc, subdomains, i, bfSet, lookups,
          calls, ret, stdout, exc>>

---------------------------------------------------------------------------
(* Character codes and string literals                                     *)

Comma == 44
Dot == <<46>>
\* str.strip() with no argument removes these (ASCII) characters
Whitespace == {9, 10, 11, 12, 13, 28, 29, 30, 31, 32}
\* str.splitlines() breaks a line at these (ASCII) characters
LineBreaks == {10, 11, 12, 13, 28, 29, 30}

\* ['www', 'ftp', 'mail', 'blog', 'dev', 'api', 'shop', 'm', 'web', 'app', 'news', 'test']
known_subdomains ==
    << <<119, 119, 119>>, <<102, 116, 112>>, <<109, 97, 105, 108>>,
       <<98, 108, 111, 103>>, <<100, 101, 118>>, <<97, 112, 105>>,
       <<115, 104, 111, 112>>, <<109>>, <<119, 101, 98>>, <<97, 112, 112>>,
       <<110, 101, 119, 115>>, <<116, 101, 115, 116>> >>

---------------------------------------------------------------------------
(* Pure string functions                                                   *)

\* `d in s` on two str values
Contains(s, d) ==
    \E k \in 0..(Len(s) - Len(d)) : SubSeq(s, k + 1, k + Len(d)) = d

RECURSIVE LStrip(_)
LStrip(s) ==
    IF s # <<>> /\ Head(s) \in Whitespace THEN LStrip(Tail(s)) ELSE s

RECURSIVE RStrip(_)
RStrip(s) ==
    IF s # <<>> /\ s[Len(s)] \in Whitespace
    THEN RStrip(SubSeq(s, 1, Len(s) - 1))
    ELSE s

\* s.strip()
Strip(s) == RStrip(LStrip(s))

\* s.split(sep) for a one-character separator: always at least one piece
RECURSIVE SplitFrom(_, _, _)
SplitFrom(s, sep, cur) ==
    IF s = <<>> THEN <<cur>>
    ELSE IF Head(s) = sep THEN <<cur>> \o SplitFrom(Tail(s), sep, <<>>)
    ELSE SplitFrom(Tail(s), sep, Append(cur, Head(s)))

Split(s, sep) == SplitFrom(s, sep, <<>>)

\* s.splitlines(): a line ends at a line break ("\r\n" counts once); what
\* follows the last break is a line only if it is not empty
RECURSIVE SplitLinesFrom(_, _)
SplitLinesFrom(s, cur) ==
    IF s = <<>> THEN (IF cur = <<>> THEN <<>> ELSE <<cur>>)
    ELSE IF Head(s) = 13 /\ Len(s) > 1 /\ s[2] = 10
         THEN <<cur>> \o SplitLinesFrom(Tail(Tail(s)), <<>>)
    ELSE IF Head(s) \in LineBreaks
         THEN <<cur>> \o SplitLinesFrom(Tail(s), <<>>)
    ELSE SplitLinesFrom(Tail(s), Append(cur, Head(s)))

SplitLines(s) == SplitLinesFrom(s, <<>>)

Range(f) == {f[k] : k \in DOMAIN f}

\* a < b on two str values: by code point, a proper prefix first
RECURSIVE LexLess(_, _)
LexLess(a, b) ==
    IF b = <<>> THEN FALSE
    ELSE IF a = <<>> THEN TRUE
    ELSE IF Head(a) # Head(b) THEN Head(a) < Head(b)
    ELSE LexLess(Tail(a), Tail(b))

\* a mutation of Sorted: orders by length only
RECURSIVE SortedByLen(_)
SortedByLen(S) ==
    IF S = {} THEN <<>>
    ELSE LET m == CHOOSE x \in S : \A y \in S : Len(x) <= Len(y)
         IN  <<m>> \o SortedByLen(S \ {m})

\* sorted(S) for a set of str
RECURSIVE Sorted(_)
Sorted(S) ==
    IF S = {} THEN <<>>
    ELSE LET m == CHOOSE x \in S : \A y \in S : x = y \/ LexLess(x, y)
         IN  <<m>> \o Sorted(S \ {m})

\* a mutation of Update: the argument replaces the set
UpdateOverwrite(s, t) == t

\* s.update(t) on a set
Update(s, t) == s \cup t

\* a mutation of FullDomain: the separating dot is left out
FullDomainNoDot(sub, d) == sub \o d

\* f"{sub}.{domain}"
FullDomain(sub, d) == sub \o Dot \o d

---------------------------------------------------------------------------
(* Printed lines, and what a called function hands back                    *)

\* one print(): which function printed, which message, and its argument
Line(src, tag, arg) == [src |-> src, tag |-> tag, arg |-> arg]

\* outcome of one call: the exception it lets escape ("none": it returned),
\* the lines it printed and the set it returned
Outcome(e, out, r) == [exc |-> e, out |-> out, ret |-> r]

\* the except clauses after dns resolution: NoAnswer, NXDOMAIN, LifetimeTimeout
Catches(answer) == answer \in {"NoAnswer", "NXDOMAIN", "LifetimeTimeout"}

\* get_subdomains(domain), the apex lookup ending as `answer`
get_subdomains(d, answer) ==
    IF answer = "A" THEN Outcome("none", <<>>, {d})
    ELSE IF ~Catches(answer) THEN Outcome(answer, <<>>, {})
    ELSE IF answer = "LifetimeTimeout"
         THEN Outcome("none", <<Line("get_subdomains", "DNS resolution timed out", d)>>, {})
    ELSE Outcome("none", <<Line("get_subdomains", "No subdomains found for", d)>>, {})

\* a mutation of Matches: the domain must end the entry
MatchesSuffix(d, s) ==
    Len(s) >= Len(d) /\ SubSeq(s, Len(s) - Len(d) + 1, Len(s)) = d

\* the filter `if domain in s` of the list comprehension
Matches(d, s) == Contains(s, d)

\* [s.strip() for s in subdomain.split(',') if domain in s], as a set
Entries(d, name_value) ==
    LET parts == Split(name_value, Comma)
    IN  {Strip(parts[k]) : k \in {n \in DOMAIN parts : Matches(d, parts[n])}}

\* the loop `for cert in data`: cert['name_value'] raises KeyError when the
\* field is missing, and nothing in get_crt_sh_subdomains catches it
RECURSIVE CrtLoop(_, _, _)
CrtLoop(d, data, acc) ==
    IF data = <<>> THEN Outcome("none", <<>>, acc)
    ELSE IF ~Head(data).has_name_value THEN Outcome("KeyError", <<>>, {})
    ELSE CrtLoop(d, Tail(data), Update(acc, Entries(d, Head(data).name_value)))

\* get_crt_sh_subdomains(domain), the request ending as `h`
get_crt_sh_subdomains(d, h) ==
    IF h.kind = "ConnectionError"
    THEN Outcome("none", <<Line("get_crt_sh_subdomains", "Error querying crt.sh", d)>>, {})
    ELSE IF h.status # 200
    THEN Outcome("none", <<Line("get_crt_sh_subdomains", "Error fetching crt.sh data", d)>>, {})
    ELSE IF ~h.valid_json
    THEN (IF h.json_error = "RequestException"
          THEN Outcome("none", <<Line("get_crt_sh_subdomains", "Error querying crt.sh", d)>>, {})
          ELSE Outcome(h.json_error, <<>>, {}))
    ELSE CrtLoop(d, h.data, {})

\* set(result.stdout.splitlines())
StdoutLines(text) == Range(SplitLines(text))

\* the body shared by run_sublist3r, run_amass and run_assetfinder:
\* subprocess.run without check=True never looks at the return code
RunTool(name, p) ==
    LET running == Line(name, "Running", <<>>)
    IN  IF p.kind = "OSError"
        THEN Outcome("none", <<running, Line(name, "Error running", <<>>)>>, {})
        ELSE Outcome("none", <<running>>, StdoutLines(p.stdout))

run_sublist3r(d, p) == RunTool("run_sublist3r", p)
run_amass(d, p) == RunTool("run_amass", p)
run_assetfinder(d, p) == RunTool("run_assetfinder", p)

---------------------------------------------------------------------------
(* The inputs of a run: domains, certificate records, process outputs      *)

\* 'example.com'
example_com ==
    <<101, 120, 97, 109, 112, 108, 101, 46, 99, 111, 109>>

\* 'x.org'
x_org ==
    <<120, 46, 111, 114, 103>>

\* 'www.example.com'
www_example_com ==
    <<119, 119, 119, 46, 101, 120, 97, 109, 112, 108, 101, 46, 99, 111, 109>>

\* 'api.example.com'
api_example_com ==
    <<97, 112, 105, 46, 101, 120, 97, 109, 112, 108, 101, 46, 99, 111, 109>>

\* 'shop.example.com'
shop_example_com ==
    <<115, 104, 111, 112, 46, 101, 120, 97, 109, 112, 108, 101, 46, 99,
      111, 109>>

\* 'evil-example.com.attacker.net'
evil_name ==
    <<101, 118, 105, 108, 45, 101, 120, 97, 109, 112, 108, 101, 46, 99,
      111, 109, 46, 97, 116, 116, 97, 99, 107, 101, 114, 46, 110, 101, 116>>

\* 'evil-example.com.attacker.net, api.example.com'
nv_evil ==
    <<101, 118, 105, 108, 45, 101, 120, 97, 109, 112, 108, 101, 46, 99,
      111, 109, 46, 97, 116, 116, 97, 99, 107, 101, 114, 46, 110, 101, 116,
      44, 32, 97, 112, 105, 46, 101, 120, 97, 109, 112, 108, 101, 46, 99,
      111, 109>>

\* 'www.example.com,shop.example.com'
nv_www_shop ==
    <<119, 119, 119, 46, 101, 120, 97, 109, 112, 108, 101, 46, 99, 111,
      109, 44, 115, 104, 111, 112, 46, 101, 120, 97, 109, 112, 108, 101,
      46, 99, 111, 109>>

\* ' www.x.org ,other.net'
nv_padded ==
    <<32, 119, 119, 119, 46, 120, 46, 111, 114, 103, 32, 44, 111, 116, 104,
      101, 114, 46, 110, 101, 116>>

\* '*.example.com\nexample.com'
nv_wildcard ==
    <<42, 46, 101, 120, 97, 109, 112, 108, 101, 46, 99, 111, 109, 10, 101,
      120, 97, 109, 112, 108, 101, 46, 99, 111, 109>>

\* 'api.example.com\nwww.example.com\n'
out_clean ==
    <<97, 112, 105, 46, 101, 120, 97, 109, 112, 108, 101, 46, 99, 111, 109,
      10, 119, 119, 119, 46, 101, 120, 97, 109, 112, 108, 101, 46, 99, 111,
      109, 10>>

\* 'a.example.com\n\n b.example.com \n'
out_blank ==
    <<97, 46, 101, 120, 97, 109, 112, 108, 101, 46, 99, 111, 109, 10, 10,
      32, 98, 46, 101, 120, 97, 109, 112, 108, 101, 46, 99, 111, 109, 32, 10>>

Domains == {example_com, x_org}

Scripts == {"domain", "domain1"}

Tools == {"run_sublist3r", "run_amass", "run_assetfinder"}

\* the value passed to each name of a run's DNS queries: an address record,
\* one of the three errors the code names, or any other resolver error
DnsOutcomes == {"A", "NoAnswer", "NXDOMAIN", "LifetimeTimeout", "NoNameservers"}

\* query 0 is the apex lookup of get_subdomains, query k the k-th label
Queries == 0..Len(known_subdomains)

\* at most this many queries of a run end otherwise than in NXDOMAIN
MaxDnsEvents == 2

\* at most this many certificate records in a crt.sh answer
MaxRecords == 2

DnsEnv(g) == [q \in Queries |-> IF q \in DOMAIN g THEN g[q] ELSE "NXDOMAIN"]

DnsQuiet == DnsEnv(<<>>)

DnsEnvs ==
    {DnsEnv(g) : g \in UNION {[S -> DnsOutcomes \ {"NXDOMAIN"}] :
                     S \in {T \in SUBSET Queries : Cardinality(T) <= MaxDnsEvents}}}

\* a few whole DNS pictures: nothing exists; www and api exist; the apex, www
\* and shop exist and blog times out; www exists and the resolver breaks at dev
DnsProfiles ==
    { DnsQuiet,
      DnsEnv(1 :> "A" @@ 6 :> "A"),
      DnsEnv(0 :> "A" @@ 1 :> "A" @@ 4 :> "LifetimeTimeout" @@ 7 :> "A"),
      DnsEnv(1 :> "A" @@ 5 :> "NoNameservers") }

Record(has, nv) == [has_name_value |-> has, name_value |-> nv]

Records ==
    {Record(TRUE, nv) : nv \in {nv_evil, nv_www_shop, nv_padded, nv_wildcard,
                                www_example_com}}
        \cup {Record(FALSE, <<>>)}

Bodies == UNION {[1..n -> Records] : n \in 0..MaxRecords}

Http(kind, status, valid, err, data) ==
    [kind |-> kind, status |-> status, valid_json |-> valid, json_error |-> err,
     data |-> data]

\* no connection; a 500; a 200 whose body is not JSON, with either class of
\* error that response.json() raises for it (requests.exceptions.JSONDecodeError,
\* a RequestException, since requests 2.27; ValueError before); a 200 with records
HttpEnvs ==
    { Http("ConnectionError", 0, FALSE, "none", <<>>),
      Http("response", 500, TRUE, "none", <<>>),
      Http("response", 200, FALSE, "RequestException", <<>>),
      Http("response", 200, FALSE, "ValueError", <<>>) }
        \cup {Http("response", 200, TRUE, "none", b) : b \in Bodies}

HttpQuiet == Http("response", 200, TRUE, "none", <<>>)

HttpProfiles ==
    { HttpQuiet,
      Http("response", 500, TRUE, "none", <<>>),
      Http("response", 200, TRUE, "none", <<Record(TRUE, nv_www_shop)>>) }

Process(kind, rc, text) == [kind |-> kind, returncode |-> rc, stdout |-> text]

\* the executable is missing or cannot start, or it ran and exited
ProcessResults ==
    {Process("OSError", 0, <<>>)}
        \cup {Process("exited", rc, text) : rc \in {0, 1},
                                            text \in {<<>>, out_clean, out_blank}}

ToolsAbsent == [t \in Tools |-> Process("OSError", 0, <<>>)]

ToolEnvs == [Tools -> ProcessResults]

---------------------------------------------------------------------------
(* analyze_domain_and_subdomains, statement by statement                   *)

\* the functions analyze_domain_and_subdomains calls, in the order of its text
SourceOrder(sc) ==
    IF sc = "domain"
    THEN <<"get_subdomains", "brute_force_subdomains", "get_crt_sh_subdomains",
           "run_sublist3r", "run_amass", "run_assetfinder">>
    ELSE <<"get_subdomains", "brute_force_subdomains", "get_crt_sh_subdomains">>

InitRun ==
    /\ pc = "start"
    /\ subdomains = {}
    /\ i = 1
    /\ bfSet = {}
    /\ lookups = <<>>
    /\ calls = <<>>
    /\ ret = <<>>
    /\ stdout = <<>>
    /\ exc = "none"

\* the environments explored: every DNS picture with few events; every
\* crt.sh outcome; every combination of process results
Init ==
    /\ script \in Scripts
    /\ domain \in Domains
    /\ \/ /\ script = "domain"
          /\ dns \in DnsEnvs /\ http = HttpQuiet /\ tools = ToolsAbsent
       \/ dns \in DnsProfiles /\ http \in HttpEnvs /\ tools = ToolsAbsent
       \/ /\ script = "domain"
          /\ dns \in DnsProfiles /\ http \in HttpProfiles /\ tools \in ToolEnvs
    /\ InitRun

\* what a finished call does to the caller: the exception escapes, or the
\* returned set is merged into the aggregate and the next statement runs
Finish(name, o, merged, next) ==
    /\ calls' = Append(calls, name)
    /\ stdout' = stdout \o o.out
    /\ IF o.exc # "none"
       THEN /\ pc' = "raised"
            /\ exc' = o.exc
            /\ UNCHANGED <<subdomains, ret>>
       ELSE /\ pc' = next
            /\ subdomains' = merged
            /\ ret' = ret @@ (name :> o.ret)
            /\ UNCHANGED exc

\* print(f"\nAnalyzing domain and subdomains for {domain}...")
Start ==
    /\ pc = "start"
    /\ stdout' = Append(stdout, Line("analyze_domain_and_subdomains", "Analyzing", domain))
    /\ pc' = "get_subdomains"
    /\ UNCHANGED <<script, domain, dns, http, tools, subdomains, i, bfSet, lookups,
                   calls, ret, exc>>

\* subdomains = get_subdomains(domain)
GetSubdomains ==
    /\ pc = "get_subdomains"
    /\ LET o == get_subdomains(domain, dns[0])
       IN  Finish("get_subdomains", o, o.ret, "brute_force_subdomains")
    /\ UNCHANGED <<script, domain, dns, http, tools, i, bfSet, lookups>>

\* brute_force_subdomains is entered: subdomains = set()
BruteCall ==
    /\ pc = "brute_force_subdomains"
    /\ calls' = Append(calls, "brute_force_subdomains")
    /\ bfSet' = {}
    /\ i' = 1
    /\ pc' = "brute_loop"
    /\ UNCHANGED <<script, domain, dns, http, tools, subdomains, lookups, ret,
                   stdout, exc>>

\* one iteration of `for sub in known_subdomains`
BruteStep ==
    /\ pc = "brute_loop"
    /\ i <= Len(known_subdomains)
    /\ LET full_domain == FullDomain(known_subdomains[i], domain)
           answer == dns[i]
       IN  /\ lookups' = Append(lookups, full_domain)
           /\ IF answer = "A"
              THEN /\ bfSet' = bfSet \cup {full_domain}
                   /\ i' = i + 1
                   /\ UNCHANGED <<pc, stdout, exc>>
              ELSE IF ~Catches(answer)
              THEN /\ pc' = "raised"
                   /\ exc' = answer
                   /\ UNCHANGED <<bfSet, i, stdout>>
              ELSE /\ stdout' = IF answer = "LifetimeTimeout"
                                THEN Append(stdout, Line("brute_force_subdomains",
                                                         "DNS timeout while checking",
                                                         full_domain))
                                ELSE stdout
                   /\ i' = i + 1
                   /\ UNCHANGED <<pc, bfSet, exc>>
    /\ UNCHANGED <<script, domain, dns, http, tools, subdomains, calls, ret>>

\* return subdomains; subdomains.update(...) in the caller
BruteReturn ==
    /\ pc = "brute_loop"
    /\ i > Len(known_subdomains)
    /\ subdomains' = Update(subdomains, bfSet)
    /\ ret' = ret @@ ("brute_force_subdomains" :> bfSet)
    /\ pc' = "get_crt_sh_subdomains"
    /\ UNCHANGED <<script, domain, dns, http, tools, i, bfSet, lookups, calls,
                   stdout, exc>>

\* subdomains.update(get_crt_sh_subdomains(domain)); domain1.py reports next
CrtSh ==
    /\ pc = "get_crt_sh_subdomains"
    /\ LET o == get_crt_sh_subdomains(domain, http)
       IN  Finish("get_crt_sh_subdomains", o, Update(subdomains, o.ret),
                  IF script = "domain" THEN "run_sublist3r" ELSE "report")
    /\ UNCHANGED <<script, domain, dns, http, tools, i, bfSet, lookups>>

\* subdomains.update(run_sublist3r(domain))
RunSublist3r ==
    /\ pc = "run_sublist3r"
    /\ LET o == run_sublist3r(domain, tools["run_sublist3r"])
       IN  Finish("run_sublist3r", o, Update(subdomains, o.ret), "run_amass")
    /\ UNCHANGED <<script, domain, dns, http, tools, i, bfSet, lookups>>

\* subdomains.update(run_amass(domain))
RunAmass ==
    /\ pc = "run_amass"
    /\ LET o == run_amass(domain, tools["run_amass"])
       IN  Finish("run_amass", o, Update(subdomains, o.ret), "run_assetfinder")
    /\ UNCHANGED <<script, domain, dns, http, tools, i, bfSet, lookups>>

\* subdomains.update(run_assetfinder(domain))
RunAssetfinder ==
    /\ pc = "run_assetfinder"
    /\ LET o == run_assetfinder(domain, tools["run_assetfinder"])
       IN  Finish("run_assetfinder", o, Update(subdomains, o.ret), "report")
    /\ UNCHANGED <<script, domain, dns, http, tools, i, bfSet, lookups>>

\* the lines printed for the aggregate: the sorted names, or the notice
ReportLines(S) ==
    IF S # {}
    THEN <<Line("analyze_domain_and_subdomains", "Subdomains found:", <<>>)>>
             \o [k \in 1..Cardinality(S) |->
                    Line("analyze_domain_and_subdomains", "-", Sorted(S)[k])]
    ELSE <<Line("analyze_domain_and_subdomains", "No subdomains found.", <<>>)>>

\* print(f"Main domain: {domain}") and the report
Report ==
    /\ pc = "report"
    /\ stdout' = stdout
                   \o <<Line("analyze_domain_and_subdomains", "Main domain:", domain)>>
                   \o ReportLines(subdomains)
    /\ pc' = "done"
    /\ UNCHANGED <<script, domain, dns, http, tools, subdomains, i, bfSet, lookups,
                   calls, ret, exc>>

Next ==
    \/ Start
    \/ GetSubdomains
    \/ BruteCall
    \/ BruteStep
    \/ BruteReturn
    \/ CrtSh
    \/ RunSublist3r
    \/ RunAmass
    \/ RunAssetfinder
    \/ Report

Spec == Init /\ [][Next]_vars

---------------------------------------------------------------------------
(* Vocabulary of the properties                                            *)

Terminated == pc \in {"done", "raised"}

Called(name) == name \in Range(calls)

Returned(name) == name \in DOMAIN ret

Printed(src, tag) == \E k \in DOMAIN stdout : stdout[k].src = src /\ stdout[k].tag = tag

\* the names on the "- <name>" lines, in the order printed
ReportItems ==
    LET items == SelectSeq(stdout, LAMBDA l : l.tag = "-")
    IN  [k \in DOMAIN items |-> items[k].arg]

ReportPrinted ==
    \/ Printed("analyze_domain_and_subdomains", "Subdomains found:")
    \/ Printed("analyze_domain_and_subdomains", "No subdomains found.")

\* the union of what the sources returned
ReturnedNames == UNION {ret[s] : s \in DOMAIN ret}

\* a comes strictly before b in code-point order, said without recursion:
\* they agree on a prefix after which a ends or has the smaller character
Before(a, b) ==
    \E n \in 0..Len(a) :
        /\ n <= Len(b)
        /\ \A k \in 1..n : a[k] = b[k]
        /\ \/ n = Len(a) /\ n < Len(b)
           \/ n < Len(a) /\ n < Len(b) /\ a[n + 1] < b[n + 1]

\* the maximal comma-free stretches of s, said by their end points
Pieces(s) ==
    {SubSeq(s, p[1], p[2]) :
        p \in {q \in (1..(Len(s) + 1)) \X (0..Len(s)) :
                 /\ q[1] <= q[2] + 1
                 /\ \A k \in q[1]..q[2] : s[k] # 44
                 /\ q[1] = 1 \/ s[q[1] - 1] = 44
                 /\ q[2] = Len(s) \/ s[q[2] + 1] = 44}}

\* e without its leading and trailing whitespace, said by the positions of
\* its first and last character that is not whitespace
Trimmed(e) ==
    LET ink == {k \in DOMAIN e : e[k] \notin {32, 9, 10, 11, 12, 13, 28, 29, 30, 31}}
    IN  IF ink = {} THEN <<>>
        ELSE SubSeq(e, CHOOSE k \in ink : \A m \in ink : k <= m,
                       CHOOSE k \in ink : \A m \in ink : k >= m)

\* label.domain for the k-th label
Candidate(k) == known_subdomains[k] \o <<46>> \o domain

---------------------------------------------------------------------------
(* C1 (as claimed): whatever the sources do, no exception escapes          *)
(* analyze_domain_and_subdomains and a finished run has printed its        *)
(* report ("Subdomains found:" or "No subdomains found.").                 *)
C1_NeverRaisesAlwaysReports ==
    /\ pc # "raised"
    /\ exc = "none"
    /\ pc = "done" => ReportPrinted

(* C2: once the run is done every source has returned, the names on the    *)
(* report are exactly the union of the returned sets, "No subdomains       *)
(* found." is printed iff that union is empty, and in the scenario of the  *)
(* claim the report is api, shop, www in that order.                       *)
C2_ReportIsUnionOfSources ==
    pc = "done" =>
        /\ DOMAIN ret = Range(SourceOrder(script))
        /\ Range(ReportItems) = ReturnedNames
        /\ Printed("analyze_domain_and_subdomains", "No subdomains found.")
               <=> ReturnedNames = {}
        /\ Printed("analyze_domain_and_subdomains", "Subdomains found:")
               <=> ReturnedNames # {}
        /\ ( /\ ret["get_subdomains"] = {}
             /\ ret["brute_force_subdomains"] = {api_example_com, www_example_com}
             /\ ret["get_crt_sh_subdomains"] = {www_example_com, shop_example_com}
             /\ \A t \in Tools \cap DOMAIN ret : ret[t] = {} )
           => ReportItems = <<api_example_com, shop_example_com, www_example_com>>

\* the scenario of C2 has run to its report
C2_Witness ==
    /\ pc = "done"
    /\ script = "domain"
    /\ domain = example_com
    /\ ret["get_subdomains"] = {}
    /\ ret["brute_force_subdomains"] = {api_example_com, www_example_com}
    /\ ret["get_crt_sh_subdomains"] = {www_example_com, shop_example_com}
    /\ \A t \in Tools : ret[t] = {}
    /\ Len(ReportItems) = 3

(* C3: the names on the report are in strictly ascending code-point order  *)
(* (so none appears twice), and a name returned by several sources is on   *)
(* exactly one line.                                                       *)
C3_ReportSortedNoDuplicates ==
    /\ \A j, k \in DOMAIN ReportItems :
           j < k => Before(ReportItems[j], ReportItems[k])
    /\ pc = "done" =>
           \A n \in ReturnedNames :
               Cardinality({k \in DOMAIN ReportItems : ReportItems[k] = n}) = 1

\* a report of several names, one of them returned by two sources
C3_Witness ==
    /\ pc = "done"
    /\ Len(ReportItems) >= 3
    /\ \E s1, s2 \in DOMAIN ret : s1 # s2 /\ ret[s1] \cap ret[s2] # {}

(* C4: when crt.sh answers 200 and get_crt_sh_subdomains returns, it       *)
(* returns exactly the trimmed comma-separated pieces of the name_value    *)
(* fields that contain the domain as a substring; every returned name      *)
(* contains the domain; for example.com the field                          *)
(* "evil-example.com.attacker.net, api.example.com" yields both names.     *)
C4_CrtShSubstringEntries ==
    ( /\ Returned("get_crt_sh_subdomains")
      /\ calls[Len(calls)] = "get_crt_sh_subdomains"
      /\ http.kind = "response" /\ http.status = 200 /\ http.valid_json )
    => LET got == ret["get_crt_sh_subdomains"]
           all == UNION {Pieces(http.data[k].name_value) : k \in DOMAIN http.data}
       IN  /\ got = {Trimmed(e) : e \in {x \in all : Contains(x, domain)}}
           /\ \A n \in got : Contains(n, domain)
           /\ (domain = example_com /\ \E k \in DOMAIN http.data :
                                            http.data[k].name_value = nv_evil)
                  => {evil_name, api_example_com} \subseteq got

\* the example of C4: both names came back from the certificate log
C4_Witness ==
    /\ Returned("get_crt_sh_subdomains")
    /\ domain = example_com
    /\ \E k \in DOMAIN http.data : http.data[k].name_value = nv_evil
    /\ {evil_name, api_example_com} \subseteq ret["get_crt_sh_subdomains"]

\* the certificate-log request failed: no connection, a status other than
\* 200, a body that is not JSON, or a record without name_value
CrtFailure ==
    \/ http.kind = "ConnectionError"
    \/ http.status # 200
    \/ ~http.valid_json
    \/ \E k \in DOMAIN http.data : ~http.data[k].has_name_value

(* C5 (as claimed): when the certificate-log request fails,                *)
(* get_crt_sh_subdomains logs it and returns the empty set, and the run    *)
(* completes with its report.                                              *)
C5_CrtFailureLoggedAndEmpty ==
    (Called("get_crt_sh_subdomains") /\ CrtFailure) =>
        /\ Returned("get_crt_sh_subdomains")
        /\ ret["get_crt_sh_subdomains"] = {}
        /\ \/ Printed("get_crt_sh_subdomains", "Error querying crt.sh")
           \/ Printed("get_crt_sh_subdomains", "Error fetching crt.sh data")
        /\ Terminated => pc = "done" /\ ReportPrinted

(* C6 (as claimed): a runner whose executable is missing, cannot start or  *)
(* exits with a non-zero status logs the failure and returns the empty     *)
(* set, and no exception escapes.                                          *)
C6_FailedToolLoggedAndEmpty ==
    \A t \in Tools :
        (Called(t) /\ (tools[t].kind = "OSError" \/ tools[t].returncode # 0)) =>
            /\ Returned(t)
            /\ ret[t] = {}
            /\ Printed(t, "Error running")

(* C7: every name brute_force_subdomains looks up is label.domain for the  *)
(* label at that position of the 12-entry list; the names it has collected *)
(* are exactly the looked-up names whose lookup succeeded; when it returns *)
(* it has looked up all 12 and returns exactly those that resolved.        *)
C7_BruteForceOnlyKnownLabels ==
    /\ Len(known_subdomains) = 12
    /\ Range(known_subdomains) =
           { <<119, 119, 119>>, <<102, 116, 112>>, <<109, 97, 105, 108>>,
             <<98, 108, 111, 103>>, <<100, 101, 118>>, <<97, 112, 105>>,
             <<115, 104, 111, 112>>, <<109>>, <<119, 101, 98>>, <<97, 112, 112>>,
             <<110, 101, 119, 115>>, <<116, 101, 115, 116>> }
    /\ Len(lookups) <= 12
    /\ \A k \in DOMAIN lookups : lookups[k] = Candidate(k)
    /\ bfSet = {lookups[k] : k \in {n \in DOMAIN lookups : dns[n] = "A"}}
    /\ Returned("brute_force_subdomains") =>
           /\ Len(lookups) = 12
           /\ ret["brute_force_subdomains"] =
                  {Candidate(k) : k \in {n \in 1..12 : dns[n] = "A"}}

\* brute_force_subdomains returned two names after some lookups failed
C7_Witness ==
    /\ Returned("brute_force_subdomains")
    /\ Cardinality(ret["brute_force_subdomains"]) = 2
    /\ \E k \in 1..12 : dns[k] = "LifetimeTimeout"

(* C8 (as claimed): whatever error a label's lookup ends in, the loop goes *)
(* on: a run that entered brute_force_subdomains looks up all 12 labels    *)
(* and the function returns the names found.                               *)
C8_EveryLabelFailureSwallowed ==
    (Called("brute_force_subdomains") /\ Terminated) =>
        /\ Len(lookups) = 12
        /\ Returned("brute_force_subdomains")
        /\ ret["brute_force_subdomains"] = bfSet

(* C9 (as claimed): every run invokes each source once, in the order of    *)
(* the text, whatever fails; "Main domain:" and the report are printed     *)
(* only after every source has returned.                                   *)
C9_AllSourcesInOrderThenReport ==
    /\ Terminated => calls = SourceOrder(script)
    /\ \A k \in DOMAIN calls : calls[k] = SourceOrder(script)[k]
    /\ (Printed("analyze_domain_and_subdomains", "Main domain:") \/ ReportPrinted)
           => DOMAIN ret = Range(SourceOrder(script))

(* C10 (as claimed): every name in the aggregate set is non-empty and has  *)
(* no whitespace at either end.                                            *)
C10_NamesTrimmedNonEmpty ==
    \A n \in subdomains :
        /\ n # <<>>
        /\ n[1] \notin Whitespace
        /\ n[Len(n)] \notin Whitespace

====
